---- MODULE Spec2Model ----
(***************************************************************************)
(* Model of tools/webpack/packages.js: the webpack configuration factory   *)
(* for the @wordpress packages, its helpers camelCaseDash and              *)
(* mapVendorCopies, and the callbacks (content transforms, path transform, *)
(* [basename] handler) it hands to the plugins.                            *)
(*                                                                         *)
(* Strings are sequences of one-character strings, so that replace,        *)
(* startsWith, join and basename are computed and not assumed.  A few      *)
(* long literals that are only ever copied whole (directory and file names *)
(* of the fixed tables) are kept as single elements; "/" and "-" are       *)
(* always elements of their own wherever the code looks at them.           *)
(***************************************************************************)
EXTENDS Naturals, Integers, Sequences, FiniteSets, TLC

VARIABLES
    input,          \* camelCaseDash: the string first passed in
    string,         \* camelCaseDash: the value returned by the latest call
    calls,          \* camelCaseDash: number of times it was applied in a row
    arg,            \* module.exports: the argument it is called with
    dependencies,   \* Object.keys( require('../../package').dependencies )
    processEnv,     \* process.env.SOURCEMAP / WORDPRESS_LIVE_RELOAD_PORT
    pc,             \* "start", "built" once module.exports returned, "called"
                    \* once a plugin invoked one of the callbacks
    config,         \* the object module.exports returned
    call            \* the latest plugin callback invocation and its result

vars == << input, string, calls, arg, dependencies, processEnv, pc, config, call >>

camelVars == << input, string, calls >>
buildVars == << arg, dependencies, processEnv, pc, config, call >>

(***************************************************************************)
(* Bounds                                                                  *)
(***************************************************************************)
MaxLen == 4       \* longest enumerated camelCaseDash input
MaxDeps == 2      \* most keys in the dependencies object

(***************************************************************************)
(* Generic sequence helpers                                                *)
(***************************************************************************)
Last(s) == s[Len(s)]

Front(s) == SubSeq(s, 1, Len(s) - 1)

RECURSIVE JoinWith(_, _)
JoinWith(ss, sep) ==
    IF ss = << >> THEN << >>
    ELSE IF Len(ss) = 1 THEN Head(ss)
    ELSE Head(ss) \o sep \o JoinWith(Tail(ss), sep)

SeqsUpTo(S, n) == UNION { [1..k -> S] : k \in 0..n }

(***************************************************************************)
(* JavaScript values that may be a string, false or undefined              *)
(***************************************************************************)
JsFalse == [js |-> "false"]
JsUndefined == [js |-> "undefined"]
JsStr(s) == [js |-> "string", s |-> s]

\* ToBoolean: false, undefined and '' are falsy, any other string is truthy
Truthy(v) == v.js = "string" /\ v.s # << >>

(***************************************************************************)
(* camelCaseDash                                                           *)
(***************************************************************************)
LowerChars == << "a", "b", "c", "d", "e", "f", "g", "h", "i", "j", "k", "l", "m",
                 "n", "o", "p", "q", "r", "s", "t", "u", "v", "w", "x", "y", "z" >>
UpperChars == << "A", "B", "C", "D", "E", "F", "G", "H", "I", "J", "K", "L", "M",
                 "N", "O", "P", "Q", "R", "S", "T", "U", "V", "W", "X", "Y", "Z" >>

\* the character class [a-z]
IsLower(c) == \E i \in DOMAIN LowerChars : LowerChars[i] = c

\* buggy variant: the captured letter is put back as it is
toUpperCaseKeep(c) == c

\* String.prototype.toUpperCase on one character
toUpperCase(c) ==
    IF IsLower(c)
    THEN UpperChars[CHOOSE i \in DOMAIN LowerChars : LowerChars[i] = c]
    ELSE c

\* buggy variant: the letter class also takes digits and uppercase letters
MatchesDashAny(s) == Len(s) >= 2 /\ s[1] = "-" /\ s[2] # "-"

\* /-([a-z])/ matches at the head of s
MatchesDashLower(s) == Len(s) >= 2 /\ s[1] = "-" /\ IsLower(s[2])

\* string.replace( /-([a-z])/g, ( match, letter ) => letter.toUpperCase() ):
\* the leftmost match is replaced and the scan resumes after it
RECURSIVE camelCaseDash(_)
camelCaseDash(s) ==
    IF s = << >> THEN << >>
    ELSE IF MatchesDashLower(s)
         THEN << toUpperCase(s[2]) >> \o camelCaseDash(SubSeq(s, 3, Len(s)))
         ELSE << s[1] >> \o camelCaseDash(Tail(s))

(***************************************************************************)
(* Specification of camelCaseDash on its own: Init draws the input, the    *)
(* action applies the function to the value it last returned.              *)
(***************************************************************************)
MaxCalls == 2     \* applications in a row

Alphabet == { "-", "a", "f", "A", "1" }

Examples ==
    { << "a", "p", "i", "-", "f", "e", "t", "c", "h" >>,
      << "t", "o", "k", "e", "n", "-", "l", "i", "s", "t" >>,
      << "a", "1", "1", "y" >>,
      << "d", "o", "m", "-", "r", "e", "a", "d", "y" >>,
      << "s", "e", "r", "v", "e", "r", "-", "s", "i", "d", "e", "-", "r", "e", "n", "d", "e", "r" >> }

CamelInputs == SeqsUpTo(Alphabet, MaxLen) \cup Examples

Idle == [js |-> "undefined"]

InitCamel ==
    /\ input \in CamelInputs
    /\ string = input
    /\ calls = 0
    /\ arg = Idle /\ dependencies = << >> /\ processEnv = Idle
    /\ pc = "idle" /\ config = Idle /\ call = Idle

CamelCaseDash ==
    /\ pc = "idle"
    /\ calls < MaxCalls
    /\ string' = camelCaseDash(string)
    /\ calls' = calls + 1
    /\ UNCHANGED << input, buildVars >>

NextCamel == CamelCaseDash

SpecCamel == InitCamel /\ [][NextCamel]_vars

(***************************************************************************)
(* Claims about camelCaseDash                                              *)
(***************************************************************************)
\* positions of the dashes that are immediately followed by a lowercase letter
DashLowerAt(s) == { i \in 1..(Len(s) - 1) : s[i] = "-" /\ IsLower(s[i + 1]) }

\* s without those dashes, the letter after each of them upper-cased, every
\* other character as it was and where it was
DashLowerReplaced(s) ==
    LET D == DashLowerAt(s)
        K == (1..Len(s)) \ D
        nth(j) == CHOOSE i \in K : Cardinality({ k \in K : k <= i }) = j
    IN  [ j \in 1..Cardinality(K) |->
            LET i == nth(j)
            IN  IF (i - 1) \in D
                THEN UpperChars[CHOOSE n \in DOMAIN LowerChars : LowerChars[n] = s[i]]
                ELSE s[i] ]

\* C1: camelCaseDash(s) is s with every dash that is immediately followed by
\* a lowercase letter removed and that letter upper-cased, every other
\* character unchanged and in order; a letter after a digit is not
\* upper-cased, and a trailing dash or a dash before a digit, an uppercase
\* letter or another dash stays ('api-fetch' -> 'apiFetch', 'token-list' ->
\* 'tokenList', 'a11y' -> 'a11y').
C1_CamelCaseDashReplacesDashLower ==
    calls = 1 =>
        /\ string = DashLowerReplaced(input)
        /\ input = << "a", "p", "i", "-", "f", "e", "t", "c", "h" >>
             => string = << "a", "p", "i", "F", "e", "t", "c", "h" >>
        /\ input = << "t", "o", "k", "e", "n", "-", "l", "i", "s", "t" >>
             => string = << "t", "o", "k", "e", "n", "L", "i", "s", "t" >>
        /\ input = << "a", "1", "1", "y" >> => string = input
        /\ (\A i \in 1..Len(input) :
               input[i] = "-" => (i < Len(input) /\ IsLower(input[i + 1])))
             \/ \E i \in DOMAIN string : string[i] = "-"

\* a dash before a digit, a dash before a replaced pair and a trailing dash
\* are kept while the pair between them is replaced
C1_Witness ==
    /\ calls = 1
    /\ input = << "-", "1", "-", "a" >>
    /\ string = << "-", "1", "A" >>

\* C2: camelCaseDash is idempotent: once it has been applied, applying it
\* again returns the same string (a replacement never creates a new
\* dash-plus-lowercase pair).
C2_CamelCaseDashIdempotent ==
    [][(calls >= 1 /\ calls' = calls + 1) => string' = string]_vars

\* two applications in a row on an input with consecutive dashes, where the
\* first application did replace something
C2_Witness ==
    /\ calls = 2
    /\ input = << "-", "-", "a", "f" >>
    /\ string = << "-", "A", "f" >>

(***************************************************************************)
(* path.join and path.basename (POSIX)                                     *)
(***************************************************************************)
\* the segments of p between its "/" separators, empty ones included
RECURSIVE SplitSlash(_, _)
SplitSlash(p, cur) ==
    IF p = << >> THEN << cur >>
    ELSE IF Head(p) = "/" THEN << cur >> \o SplitSlash(Tail(p), << >>)
    ELSE SplitSlash(Tail(p), Append(cur, Head(p)))

DotSeg == << "." >>
DotDotSeg == << ".", "." >>

\* path.normalize on the segments: '' and '.' are dropped, '..' removes the
\* segment before it (and is dropped at the root of an absolute path)
RECURSIVE NormalizeSegments(_, _, _)
NormalizeSegments(todo, done, isAbsolute) ==
    IF todo = << >> THEN done
    ELSE LET seg == Head(todo)
             rest == Tail(todo)
         IN  IF seg = << >> \/ seg = DotSeg
             THEN NormalizeSegments(rest, done, isAbsolute)
             ELSE IF seg = DotDotSeg
             THEN IF done # << >> /\ Last(done) # DotDotSeg
                  THEN NormalizeSegments(rest, Front(done), isAbsolute)
                  ELSE IF isAbsolute
                  THEN NormalizeSegments(rest, done, isAbsolute)
                  ELSE NormalizeSegments(rest, Append(done, seg), isAbsolute)
             ELSE NormalizeSegments(rest, Append(done, seg), isAbsolute)

normalize(p) ==
    IF p = << >> THEN DotSeg
    ELSE LET isAbsolute == Head(p) = "/"
             trailing == Last(p) = "/"
             body == JoinWith(NormalizeSegments(SplitSlash(p, << >>), << >>, isAbsolute),
                              << "/" >>)
         IN  IF body = << >>
             THEN IF isAbsolute THEN << "/" >>
                  ELSE IF trailing THEN << ".", "/" >> ELSE DotSeg
             ELSE (IF isAbsolute THEN << "/" >> ELSE << >>)
                  \o body
                  \o (IF trailing THEN << "/" >> ELSE << >>)

\* path.join( a, b ): the non-empty arguments joined by "/", then normalized
join(a, b) ==
    IF a = << >> THEN normalize(b)
    ELSE IF b = << >> THEN normalize(a)
    ELSE normalize(a \o << "/" >> \o b)

\* path.basename( p ): the last segment, trailing separators ignored
RECURSIVE basename(_)
basename(p) ==
    IF p = << >> THEN << >>
    ELSE IF Last(p) = "/" THEN basename(Front(p))
    ELSE Last(SplitSlash(p, << >>))

\* the directory of tools/webpack/packages.js in a checkout at /repo
dirname == << "/", "repo", "/", "tools", "/", "webpack" >>

baseDir == join(dirname, << ".", ".", "/", ".", ".", "/" >>)

(***************************************************************************)
(* String helpers                                                          *)
(***************************************************************************)
startsWith(s, prefix) ==
    Len(s) >= Len(prefix) /\ SubSeq(s, 1, Len(prefix)) = prefix

endsWith(s, suffix) ==
    Len(s) >= Len(suffix) /\ SubSeq(s, Len(s) - Len(suffix) + 1, Len(s)) = suffix

\* s.replace( pattern, replacement ) with a string pattern: first occurrence
RECURSIVE replaceFirst(_, _, _)
replaceFirst(s, pattern, replacement) ==
    IF startsWith(s, pattern) THEN replacement \o SubSeq(s, Len(pattern) + 1, Len(s))
    ELSE IF s = << >> THEN << >>
    ELSE << Head(s) >> \o replaceFirst(Tail(s), pattern, replacement)

(***************************************************************************)
(* The fixed tables of module.exports.  An object literal is the sequence  *)
(* of its properties in insertion order, which is the order of Object.keys *)
(* for these keys.                                                         *)
(***************************************************************************)
\* unminified files, copied in development
vendors ==
    << [ key |-> << "lodash.js" >>,
         value |-> << "lodash", "/", "lodash.js" >> ],
       [ key |-> << "wp-polyfill.js" >>,
         value |-> << "@babel", "/", "polyfill", "/", "dist", "/", "polyfill.js" >> ],
       [ key |-> << "wp-polyfill-fetch.js" >>,
         value |-> << "whatwg-fetch", "/", "dist", "/", "fetch.umd.js" >> ],
       [ key |-> << "wp-polyfill-element-closest.js" >>,
         value |-> << "element-closest", "/", "element-closest.js" >> ],
       [ key |-> << "wp-polyfill-node-contains.js" >>,
         value |-> << "polyfill-library", "/", "polyfills", "/", "Node", "/", "prototype", "/", "contains", "/", "polyfill.js" >> ],
       [ key |-> << "wp-polyfill-formdata.js" >>,
         value |-> << "formdata-polyfill", "/", "FormData.js" >> ],
       [ key |-> << "moment.js" >>,
         value |-> << "moment", "/", "moment.js" >> ],
       [ key |-> << "react.js" >>,
         value |-> << "react", "/", "umd", "/", "react.development.js" >> ],
       [ key |-> << "react-dom.js" >>,
         value |-> << "react-dom", "/", "umd", "/", "react-dom.development.js" >> ] >>

\* files that ship minified, copied as they are
minifiedVendors ==
    << [ key |-> << "lodash.min.js" >>,
         value |-> << "lodash", "/", "lodash.min.js" >> ],
       [ key |-> << "wp-polyfill.min.js" >>,
         value |-> << "@babel", "/", "polyfill", "/", "dist", "/", "polyfill.min.js" >> ],
       [ key |-> << "wp-polyfill-formdata.min.js" >>,
         value |-> << "formdata-polyfill", "/", "formdata.min.js" >> ],
       [ key |-> << "moment.min.js" >>,
         value |-> << "moment", "/", "min", "/", "moment.min.js" >> ],
       [ key |-> << "react.min.js" >>,
         value |-> << "react", "/", "umd", "/", "react.production.min.js" >> ],
       [ key |-> << "react-dom.min.js" >>,
         value |-> << "react-dom", "/", "umd", "/", "react-dom.production.min.js" >> ] >>

\* buggy variant: a key that minifiedVendors already has
minifyVendorsClash ==
    << [ key |-> << "wp-polyfill-fetch.min.js" >>,
         value |-> << "whatwg-fetch", "/", "dist", "/", "fetch.umd.js" >> ],
       [ key |-> << "lodash.min.js" >>,
         value |-> << "element-closest", "/", "element-closest.js" >> ],
       [ key |-> << "wp-polyfill-node-contains.min.js" >>,
         value |-> << "polyfill-library", "/", "polyfills", "/", "Node", "/", "prototype", "/", "contains", "/", "polyfill.js" >> ] >>

\* files minified while they are copied
minifyVendors ==
    << [ key |-> << "wp-polyfill-fetch.min.js" >>,
         value |-> << "whatwg-fetch", "/", "dist", "/", "fetch.umd.js" >> ],
       [ key |-> << "wp-polyfill-element-closest.min.js" >>,
         value |-> << "element-closest", "/", "element-closest.js" >> ],
       [ key |-> << "wp-polyfill-node-contains.min.js" >>,
         value |-> << "polyfill-library", "/", "polyfills", "/", "Node", "/", "prototype", "/", "contains", "/", "polyfill.js" >> ] >>

blockNames ==
    << << "archives" >>,
       << "block" >>,
       << "calendar" >>,
       << "categories" >>,
       << "latest-comments" >>,
       << "latest-posts" >>,
       << "navigation" >>,
       << "rss" >>,
       << "search" >>,
       << "shortcode" >>,
       << "tag-cloud" >> >>

\* the names handed to LibraryExportDefaultPlugin, before .map( camelCaseDash )
libraryExportDefaultNames ==
    << << "a", "p", "i", "-", "f", "e", "t", "c", "h" >>,
       << "d", "e", "p", "r", "e", "c", "a", "t", "e", "d" >>,
       << "d", "o", "m", "-", "r", "e", "a", "d", "y" >>,
       << "r", "e", "d", "u", "x", "-", "r", "o", "u", "t", "i", "n", "e" >>,
       << "t", "o", "k", "e", "n", "-", "l", "i", "s", "t" >>,
       << "s", "e", "r", "v", "e", "r", "-", "s", "i", "d", "e", "-", "r", "e", "n", "d", "e", "r" >>,
       << "s", "h", "o", "r", "t", "c", "o", "d", "e" >> >>

(***************************************************************************)
(* mapVendorCopies                                                         *)
(***************************************************************************)
NodeModules == << "node_modules", "/" >>
NodeModulesWordPress == << "node_modules", "/", "@wordpress", "/" >>

mapVendorCopies(vendorMap, buildTarget) ==
    [ i \in 1..Len(vendorMap) |->
        [ from |-> join(baseDir, NodeModules \o vendorMap[i].value),
          to   |-> join(baseDir, buildTarget
                                   \o << "/", "js", "/", "dist", "/", "vendor", "/" >>
                                   \o vendorMap[i].key) ] ]

(***************************************************************************)
(* module.exports, piece by piece in the order of the source               *)
(***************************************************************************)
\* the default value of the parameter env
defaultEnv == [ environment |-> "production", watch |-> FALSE, buildTarget |-> JsFalse ]

\* env = { ... } default parameter: used when the argument is undefined
envOf(a) == IF a.js = "undefined" THEN defaultEnv ELSE a.env

\* buggy variant: no suffix for any mode but 'development'
suffixUnlessDevelopment(mode) == IF mode # "development" THEN << ".min" >> ELSE << >>

suffix(mode) == IF mode = "production" THEN << ".min" >> ELSE << >>

\* buggy variant: production always builds into 'build'
buildTargetProductionFirst(env) ==
    (IF env.environment = "production" THEN << "build" >>
     ELSE IF Truthy(env.buildTarget) THEN env.buildTarget.s ELSE << "src" >>)
    \o << "/", "wp-includes" >>

\* let buildTarget = env.buildTarget ? env.buildTarget : ( ... ); + '/wp-includes'
buildTarget(env) ==
    (IF Truthy(env.buildTarget) THEN env.buildTarget.s
     ELSE IF env.environment = "production" THEN << "build" >> ELSE << "src" >>)
    \o << "/", "wp-includes" >>

WORDPRESS_NAMESPACE == << "@wordpress", "/" >>

\* Object.keys( dependencies ).filter( startsWith ).map( replace )
packages(deps) ==
    LET kept == SelectSeq(deps, LAMBDA packageName : startsWith(packageName, WORDPRESS_NAMESPACE))
    IN  [ i \in 1..Len(kept) |-> replaceFirst(kept[i], WORDPRESS_NAMESPACE, << >>) ]

\* phpFiles: the parser entry, then one entry per block name
phpFiles ==
    << [ key   |-> << "block-serialization-default-parser", "/", "parser.php" >>,
         value |-> << "wp-includes", "/", "class-wp-block-parser.php" >> ] >>
    \o [ i \in 1..Len(blockNames) |->
           [ key   |-> << "block-library", "/", "src", "/" >> \o blockNames[i]
                         \o << "/", "index.php" >>,
             value |-> << "wp-includes", "/", "blocks", "/" >> \o blockNames[i]
                         \o << ".php" >> ] ]

blockMetadataCopies(target) ==
    [ from |-> join(baseDir, NodeModulesWordPress
                              \o << "block-library", "/", "src", "/", "+(" >>
                              \o JoinWith(blockNames, << "|" >>)
                              \o << ")", "/", "block.json" >>),
      test |-> "/([^/]+)/block\\.json$",
      to   |-> join(baseDir, target \o << "/", "blocks", "/", "[1]", "/", "block.json" >>) ]

developmentCopies(target) == mapVendorCopies(vendors, target)

minifiedCopies(target) == mapVendorCopies(minifiedVendors, target)

\* each copy command of minifyVendors gets the UglifyJS transform
minifyCopies(target) ==
    LET copies == mapVendorCopies(minifyVendors, target)
    IN  [ i \in 1..Len(copies) |->
            [ from |-> copies[i].from, to |-> copies[i].to, transform |-> [ fn |-> "uglify" ] ] ]

\* buggy variant: the test is on 'production', as everywhere else in the file
vendorCopiesByProduction(mode, target) ==
    IF mode # "production" THEN developmentCopies(target)
    ELSE minifiedCopies(target) \o minifyCopies(target)

\* mode === "development" ? developmentCopies : [ ...minifiedCopies, ...minifyCopies ]
vendorCopies(mode, target) ==
    IF mode = "development" THEN developmentCopies(target)
    ELSE minifiedCopies(target) \o minifyCopies(target)

DotCss == << ".", "c", "s", "s" >>
DotMinCss == << ".", "m", "i", "n", ".", "c", "s", "s" >>

\* the transform and transformPath closures capture mode
cssCopies(pkgs, mode, target) ==
    [ i \in 1..Len(pkgs) |->
        [ from |-> join(baseDir, NodeModulesWordPress \o pkgs[i]
                                  \o << "/", "build-style", "/", "*" >> \o DotCss),
          to   |-> join(baseDir, target \o << "/", "css", "/", "dist", "/" >>
                                  \o pkgs[i] \o << "/" >>),
          flatten |-> TRUE,
          transform     |-> [ fn |-> "cssTransform", mode |-> mode ],
          transformPath |-> [ fn |-> "cssTransformPath", mode |-> mode ] ] ]

phpCopies ==
    [ i \in 1..Len(phpFiles) |->
        [ from |-> join(baseDir, NodeModulesWordPress \o phpFiles[i].key),
          to   |-> join(baseDir, << "src", "/" >> \o phpFiles[i].value) ] ]

\* buggy variant: an existing key is kept
entryAssignKeep(memo, name, value) == memo @@ (name :> value)

\* memo[ name ] = value
entryAssign(memo, name, value) == (name :> value) @@ memo

\* packages.reduce( ( memo, packageName ) => { ... }, {} )
RECURSIVE entryReduce(_, _)
entryReduce(memo, pkgs) ==
    IF pkgs = << >> THEN memo
    ELSE entryReduce(entryAssign(memo, camelCaseDash(Head(pkgs)),
                                 join(baseDir, NodeModulesWordPress \o Head(pkgs))),
                     Tail(pkgs))

entry(pkgs) == entryReduce(<< >>, pkgs)

GUTENBERG_PHASE == 1
DefaultLiveReloadPort == 35729

\* a || b on a value that is a string or undefined
OrElse(a, b) == IF Truthy(a) THEN a ELSE b

\* buggy variant: the plugin follows the requested environment
hasLiveReloadByEnvironment(configMode, mode) == mode = "development"

\* if ( config.mode === 'development' ) on the mode the config ends up with
hasLiveReload(configMode, mode) == configMode = "development"

moduleExports(a, deps, penv) ==
    LET env    == envOf(a)
        mode   == env.environment
        target == buildTarget(env)
        pkgs   == packages(deps)
        base   ==
            [ mode   |-> mode,
              entry  |-> entry(pkgs),
              output |-> [ devtoolNamespace |-> "wp",
                           filename |-> << "[basename]" >> \o suffix(mode) \o << ".js" >>,
                           path |-> join(baseDir, target \o << "/", "js", "/", "dist" >>),
                           library |-> [ root |-> << "wp", "[name]" >> ],
                           libraryTarget |-> "this" ],
              resolve |-> [ modules |-> << baseDir, << "node_modules" >> >>,
                            alias |-> [ lodashEs |-> "lodash" ] ],
              module |-> [ rules |-> << [ test |-> "\\.js$",
                                          use |-> << "source-map-loader" >>,
                                          enforce |-> "pre" ] >> ],
              plugins |->
                << [ plugin |-> "DefinePlugin", GUTENBERG_PHASE |-> GUTENBERG_PHASE ],
                   [ plugin |-> "LibraryExportDefaultPlugin",
                     entries |-> [ i \in 1..Len(libraryExportDefaultNames) |->
                                     camelCaseDash(libraryExportDefaultNames[i]) ] ],
                   [ plugin |-> "CustomTemplatedPathPlugin", handlers |-> << "basename" >> ],
                   [ plugin |-> "DependencyExtractionPlugin", injectPolyfill |-> TRUE ],
                   [ plugin |-> "CopyWebpackPlugin",
                     patterns |-> vendorCopies(mode, target)
                                    \o cssCopies(pkgs, mode, target)
                                    \o phpCopies
                                    \o << blockMetadataCopies(target) >> ] >>,
              stats |-> [ children |-> FALSE ],
              watch |-> env.watch ]
        \* if ( config.mode !== 'production' ) config.devtool = SOURCEMAP || 'source-map'
        withDevtool ==
            IF base.mode # "production"
            THEN ("devtool" :> OrElse(penv.SOURCEMAP, JsStr(<< "source-map" >>))) @@ base
            ELSE base
        \* if ( mode === 'development' && env.buildTarget === 'build/' )
        special == mode = "development" /\ env.buildTarget = JsStr(<< "build", "/" >>)
        afterSpecial ==
            IF special
            THEN ("mode" :> "production")
                 @@ ("optimization" :> [ minimize |-> FALSE ])
                 @@ [ k \in (DOMAIN withDevtool) \ { "devtool" } |-> withDevtool[k] ]
            ELSE withDevtool
    IN  IF hasLiveReload(afterSpecial.mode, mode)
        THEN ("plugins" :>
                Append(afterSpecial.plugins,
                       [ plugin |-> "LiveReloadPlugin",
                         port |-> OrElse(penv.WORDPRESS_LIVE_RELOAD_PORT,
                                         [ js |-> "number", n |-> DefaultLiveReloadPort ]) ]))
             @@ afterSpecial
        ELSE afterSpecial

(***************************************************************************)
(* The callbacks module.exports hands to the plugins                       *)
(***************************************************************************)
\* UglifyJS.minify( text ): { code } on success, { error } (and no code) when
\* the text does not parse
UglifyJSMinify(text, parses) ==
    IF parses THEN [ code |-> JsStr(<< "uglify:" >> \o text) ]
    ELSE [ error |-> "JS_Parse_Error", code |-> JsUndefined ]

\* transform: ( content ) => UglifyJS.minify( content.toString() ).code
uglifyTransform(content, parses) == UglifyJSMinify(content.data, parses).code

\* postcss( [ cssnano ] ).process( content, ... ).then( ( result ) => result.css )
postcssProcess(content, parses) ==
    IF parses
    THEN [ js |-> "promise", state |-> "fulfilled", value |-> JsStr(<< "cssnano:" >> \o content.data) ]
    ELSE [ js |-> "promise", state |-> "rejected", value |-> JsStr(<< "CssSyntaxError" >>) ]

\* transform: ( content ) => { if ( mode === 'production' ) ... return content; }
cssTransform(mode, content, parses) ==
    IF mode = "production" THEN postcssProcess(content, parses) ELSE content

\* buggy variant: the pattern is not anchored at the end
replaceDotCssAnywhere(targetPath) == replaceFirst(targetPath, DotCss, DotMinCss)

\* targetPath.replace( /\.css$/, '.min.css' )
replaceDotCssAtEnd(targetPath) ==
    IF endsWith(targetPath, DotCss)
    THEN SubSeq(targetPath, 1, Len(targetPath) - Len(DotCss)) \o DotMinCss
    ELSE targetPath

\* transformPath: ( targetPath, sourcePath ) => ...
cssTransformPath(mode, targetPath, sourcePath) ==
    IF mode = "production" THEN replaceDotCssAtEnd(targetPath) ELSE targetPath

EmptyObject == << >>

\* get( data, [ 'chunk', 'entryModule' ], {} )
getEntryModule(data) ==
    IF "chunk" \in DOMAIN data /\ "entryModule" \in DOMAIN data.chunk
    THEN data.chunk.entryModule
    ELSE EmptyObject

\* buggy variant: the file is named after the entry key
basenameHandlerCamel(path, data) ==
    LET entryModule == getEntryModule(data)
        type == IF "type" \in DOMAIN entryModule THEN entryModule.type ELSE "undefined"
        rawRequest ==
            IF type = "javascript/auto" THEN entryModule.rawRequest
            ELSE IF type = "javascript/esm" THEN entryModule.rootModule.rawRequest
            ELSE << >>
    IN  IF rawRequest # << >> THEN camelCaseDash(basename(rawRequest)) ELSE path

\* the basename( path, data ) handler given to CustomTemplatedPathPlugin
basenameHandler(path, data) ==
    LET entryModule == getEntryModule(data)
        type == IF "type" \in DOMAIN entryModule THEN entryModule.type ELSE "undefined"
        rawRequest ==
            IF type = "javascript/auto" THEN entryModule.rawRequest
            ELSE IF type = "javascript/esm" THEN entryModule.rootModule.rawRequest
            ELSE << >>
    IN  IF rawRequest # << >> THEN basename(rawRequest) ELSE path

\* CustomTemplatedPathPlugin: path.replace( /\[basename\]/gi, handler( path, data ) )
RECURSIVE replaceAll(_, _, _)
replaceAll(s, token, replacement) ==
    IF s = << >> THEN << >>
    ELSE (IF Head(s) = token THEN replacement ELSE << Head(s) >>)
         \o replaceAll(Tail(s), token, replacement)

assetPath(path, data) == replaceAll(path, "[basename]", basenameHandler(path, data))

(***************************************************************************)
(* Specification of a build: Init draws the argument, the dependencies and *)
(* the process environment; ModuleExports builds the configuration; a      *)
(* plugin then invokes one of the callbacks of the configuration.  The     *)
(* callbacks are functions of the configuration and of their arguments     *)
(* only, so a run follows one invocation.                                  *)
(***************************************************************************)
Environments == { "production", "development", "test" }

BuildTargets ==
    { JsFalse, JsStr(<< >>), JsStr(<< "build", "/" >>),
      JsStr(<< "build" >>), JsStr(<< "out", "/", "wp" >>) }

Args ==
    { JsUndefined }
    \cup { [ js |-> "object",
             env |-> [ environment |-> e, watch |-> w, buildTarget |-> b ] ] :
           e \in Environments, w \in BOOLEAN, b \in BuildTargets }

DependencyNames ==
    { WORDPRESS_NAMESPACE \o << "a", "1", "1", "y" >>,
      WORDPRESS_NAMESPACE \o << "a", "p", "i", "-", "f", "e", "t", "c", "h" >>,
      WORDPRESS_NAMESPACE \o << "a", "-", "b" >>,
      WORDPRESS_NAMESPACE \o << "a", "B" >>,
      << "x" >> \o WORDPRESS_NAMESPACE \o << "y" >> }

DependencyLists ==
    { d \in SeqsUpTo(DependencyNames, MaxDeps) :
        \A i, j \in DOMAIN d : i # j => d[i] # d[j] }

ProcessEnvs ==
    { [ SOURCEMAP |-> JsUndefined, WORDPRESS_LIVE_RELOAD_PORT |-> JsUndefined ],
      [ SOURCEMAP |-> JsStr(<< "eval" >>), WORDPRESS_LIVE_RELOAD_PORT |-> JsStr(<< "35730" >>) ] }

Contents == { [ js |-> "buffer", data |-> << "content" >> ] }

TargetPaths ==
    { << "a", ".", "c", "s", "s" >>, << "a", ".", "c", "s", "s", ".", "m", "a", "p" >>, << "a", ".", "c", "s", "s", ".", "c", "s", "s" >>, << "c", "s", "s" >> }

EntryModules(rawRequest) ==
    { [ type |-> "javascript/auto", rawRequest |-> rawRequest ],
      [ type |-> "javascript/esm", rootModule |-> [ rawRequest |-> rawRequest ] ],
      [ type |-> "javascript/dynamic", rawRequest |-> rawRequest ] }

InitBuild ==
    /\ arg \in Args
    /\ dependencies \in DependencyLists
    /\ processEnv \in ProcessEnvs
    /\ pc = "start"
    /\ config = Idle
    /\ call = Idle
    /\ input = << >> /\ string = << >> /\ calls = 0

ModuleExports ==
    /\ pc = "start"
    /\ config' = moduleExports(arg, dependencies, processEnv)
    /\ pc' = "built"
    /\ UNCHANGED << arg, dependencies, processEnv, call, camelVars >>

CopyPatterns == config.plugins[5].patterns

\* CopyWebpackPlugin calls pattern.transform of a vendor copy
VendorTransform ==
    /\ pc = "built"
    /\ \E i \in DOMAIN CopyPatterns, content \in Contents, parses \in BOOLEAN :
        /\ "transform" \in DOMAIN CopyPatterns[i]
        /\ CopyPatterns[i].transform.fn = "uglify"
        /\ call' = [ fn |-> "transform", pattern |-> i, content |-> content,
                     parses |-> parses,
                     result |-> uglifyTransform(content, parses) ]
    /\ pc' = "called"
    /\ UNCHANGED << arg, dependencies, processEnv, config, camelVars >>

\* CopyWebpackPlugin calls pattern.transform of a stylesheet copy
CssTransform ==
    /\ pc = "built"
    /\ \E i \in DOMAIN CopyPatterns, content \in Contents, parses \in BOOLEAN :
        /\ "transform" \in DOMAIN CopyPatterns[i]
        /\ CopyPatterns[i].transform.fn = "cssTransform"
        /\ call' = [ fn |-> "transform", pattern |-> i, content |-> content,
                     parses |-> parses,
                     result |-> cssTransform(CopyPatterns[i].transform.mode, content, parses) ]
    /\ pc' = "called"
    /\ UNCHANGED << arg, dependencies, processEnv, config, camelVars >>

\* CopyWebpackPlugin calls pattern.transformPath of a stylesheet copy
CssTransformPath ==
    /\ pc = "built"
    /\ \E i \in DOMAIN CopyPatterns, targetPath \in TargetPaths :
        /\ "transformPath" \in DOMAIN CopyPatterns[i]
        /\ call' = [ fn |-> "transformPath", pattern |-> i, targetPath |-> targetPath,
                     result |-> cssTransformPath(CopyPatterns[i].transformPath.mode,
                                                 targetPath, CopyPatterns[i].from) ]
    /\ pc' = "called"
    /\ UNCHANGED << arg, dependencies, processEnv, config, camelVars >>

\* webpack names the asset of a chunk: output.filename through the
\* [basename] handler; the entry module of the chunk of entry `name` was
\* requested as config.entry[ name ], a chunk may also have no entry module
AssetPath ==
    /\ pc = "built"
    /\ \E name \in DOMAIN config.entry :
         \E data \in { [ chunk |-> [ name |-> name, entryModule |-> m ] ] :
                         m \in EntryModules(config.entry[name]) }
                     \cup { [ chunk |-> [ name |-> name ] ] } :
            call' = [ fn |-> "assetPath", name |-> name, data |-> data,
                      result |-> assetPath(config.output.filename, data) ]
    /\ pc' = "called"
    /\ UNCHANGED << arg, dependencies, processEnv, config, camelVars >>

NextBuild ==
    \/ ModuleExports
    \/ VendorTransform
    \/ CssTransform
    \/ CssTransformPath
    \/ AssetPath

SpecBuild == InitBuild /\ [][NextBuild]_vars

Init == InitCamel \/ InitBuild

Next == NextCamel \/ NextBuild

Spec == Init /\ [][Next]_vars

(***************************************************************************)
(* What the claims read off a state                                        *)
(***************************************************************************)
\* module.exports has just returned: config is what it returned
Built == pc = "built"

\* a plugin has invoked one of the callbacks of that configuration
Called == pc = "called"

Env == envOf(arg)

Pkgs == packages(dependencies)

CssPatternIndexes == { i \in DOMAIN CopyPatterns : "transformPath" \in DOMAIN CopyPatterns[i] }

\* the vendor copies are what precedes the stylesheet, PHP and block.json copies
VendorPatternsOf(c) ==
    LET patterns == c.plugins[5].patterns
        css == { i \in DOMAIN patterns : "flatten" \in DOMAIN patterns[i] }
    IN  SubSeq(patterns, 1, Len(patterns) - Cardinality(css) - Len(phpFiles) - 1)

VendorPatterns == VendorPatternsOf(config)

Keys(table) == [ i \in 1..Len(table) |-> table[i].key ]

VendorTo(table, root, i) ==
    join(baseDir, root \o << "/", "wp-includes", "/", "js", "/", "dist", "/", "vendor", "/" >>
                    \o table[i].key)

VendorFrom(table, i) == join(baseDir, << "node_modules", "/" >> \o table[i].value)

\* an override is given when env.buildTarget is a non-empty string; false
\* (the default), a missing value and '' all mean that none is given
OverrideGiven == Env.buildTarget.js = "string" /\ Env.buildTarget.s # << >>

ExpectedRoot ==
    IF OverrideGiven THEN Env.buildTarget.s
    ELSE IF Env.environment = "production" THEN << "build" >> ELSE << "src" >>

HasLiveReloadPlugin(c) ==
    \E i \in DOMAIN c.plugins : c.plugins[i].plugin = "LiveReloadPlugin"

(***************************************************************************)
(* Claims about module.exports                                             *)
(***************************************************************************)
\* C3: the effective build target is <root>/wp-includes, where <root> is the
\* buildTarget override whenever one is given, whatever the environment, and
\* otherwise 'build' for environment 'production' and 'src' for every other
\* environment; the output path and every destination are below it.
C3_EffectiveBuildTarget ==
    Built =>
        /\ buildTarget(Env) = ExpectedRoot \o << "/", "wp-includes" >>
        /\ config.output.path =
             join(baseDir, ExpectedRoot \o << "/", "wp-includes", "/", "js", "/", "dist" >>)
        /\ \A i \in DOMAIN VendorPatterns :
             startsWith(VendorPatterns[i].to,
                        join(baseDir, ExpectedRoot \o << "/", "wp-includes", "/" >>))

\* an override given together with environment 'production'
C3_Witness ==
    /\ Built
    /\ Env.environment = "production"
    /\ Env.buildTarget = JsStr(<< "out", "/", "wp" >>)
    /\ config.output.path = << "/", "repo", "/", "out", "/", "wp", "/", "wp-includes",
                               "/", "js", "/", "dist" >>

\* C4: for environment 'development' the vendor copy list is one instruction
\* per entry of the unminified map, in map order, none with a content
\* transform; for every other environment it is the instructions of the
\* pre-minified map (no transform) followed by those of the
\* needs-minification map, each of the latter and only they with a content
\* transform, which returns the code the minifier produced.
C4_VendorCopiesByMode ==
    /\ Built =>
        /\ Env.environment = "development" =>
             /\ Len(VendorPatterns) = Len(vendors)
             /\ \A i \in DOMAIN VendorPatterns :
                  /\ VendorPatterns[i].from = VendorFrom(vendors, i)
                  /\ VendorPatterns[i].to = VendorTo(vendors, ExpectedRoot, i)
                  /\ "transform" \notin DOMAIN VendorPatterns[i]
        /\ Env.environment # "development" =>
             /\ Len(VendorPatterns) = Len(minifiedVendors) + Len(minifyVendors)
             /\ \A i \in 1..Len(minifiedVendors) :
                  /\ VendorPatterns[i].from = VendorFrom(minifiedVendors, i)
                  /\ VendorPatterns[i].to = VendorTo(minifiedVendors, ExpectedRoot, i)
                  /\ "transform" \notin DOMAIN VendorPatterns[i]
             /\ \A i \in 1..Len(minifyVendors) :
                  LET copy == VendorPatterns[Len(minifiedVendors) + i]
                  IN  /\ copy.from = VendorFrom(minifyVendors, i)
                      /\ copy.to = VendorTo(minifyVendors, ExpectedRoot, i)
                      /\ "transform" \in DOMAIN copy
    /\ (Called /\ call.fn = "transform" /\ call.pattern <= Len(VendorPatterns)) =>
        /\ call.pattern > Len(minifiedVendors)
        /\ call.result = IF call.parses
                         THEN JsStr(<< "uglify:" >> \o call.content.data)
                         ELSE JsUndefined

\* an environment that is neither 'development' nor 'production', and the
\* transform of the first needs-minification copy has run
C4_Witness ==
    /\ Called
    /\ Env.environment = "test"
    /\ Len(VendorPatterns) = Len(minifiedVendors) + Len(minifyVendors)
    /\ call.fn = "transform"
    /\ call.pattern = Len(minifiedVendors) + 1
    /\ call.result = JsStr(<< "uglify:", "content" >>)

\* C5: there is exactly one stylesheet copy instruction per package; its
\* destination-path transform rewrites a trailing '.css' to '.min.css' and
\* its content transform minifies the CSS if and only if environment is
\* 'production'; for every other environment it returns the content and the
\* destination path unchanged.
C5_StylesheetCopies ==
    /\ Built =>
        /\ Cardinality(CssPatternIndexes) = Len(Pkgs)
        /\ \A n \in DOMAIN Pkgs :
             Cardinality({ i \in CssPatternIndexes :
                 /\ CopyPatterns[i].from =
                      join(baseDir, << "node_modules", "/", "@wordpress", "/" >> \o Pkgs[n]
                                      \o << "/", "build-style", "/", "*", ".", "c", "s", "s" >>)
                 /\ CopyPatterns[i].to =
                      join(baseDir, ExpectedRoot
                                      \o << "/", "wp-includes", "/", "css", "/", "dist", "/" >>
                                      \o Pkgs[n] \o << "/" >>) }) = 1
    /\ (Called /\ call.fn = "transformPath") =>
        IF Env.environment = "production"
           /\ Len(call.targetPath) >= 4
           /\ SubSeq(call.targetPath, Len(call.targetPath) - 3, Len(call.targetPath))
                = << ".", "c", "s", "s" >>
        THEN call.result = SubSeq(call.targetPath, 1, Len(call.targetPath) - 4)
                             \o << ".", "m", "i", "n", ".", "c", "s", "s" >>
        ELSE call.result = call.targetPath
    /\ (Called /\ call.fn = "transform" /\ call.pattern \in CssPatternIndexes) =>
        IF Env.environment = "production"
        THEN /\ call.result.js = "promise"
             /\ call.parses => call.result.value = JsStr(<< "cssnano:" >> \o call.content.data)
             /\ call.result.state = (IF call.parses THEN "fulfilled" ELSE "rejected")
        ELSE call.result = call.content

\* in production a path that has '.css' both inside and at its end
C5_Witness ==
    /\ Called
    /\ Env.environment = "production"
    /\ Len(Pkgs) = 2
    /\ Cardinality(CssPatternIndexes) = 2
    /\ call.fn = "transformPath"
    /\ call.targetPath = << "a", ".", "c", "s", "s", ".", "c", "s", "s" >>
    /\ call.result = << "a", ".", "c", "s", "s", ".", "m", "i", "n", ".", "c", "s", "s" >>

\* the decisions of a configuration that depend on the environment
VendorKeysOf(c) ==
    [ i \in DOMAIN VendorPatternsOf(c) |-> basename(VendorPatternsOf(c)[i].to) ]

CssMinifiesOf(c) ==
    { c.plugins[5].patterns[i].transform.mode = "production" /\
      c.plugins[5].patterns[i].transformPath.mode = "production" :
        i \in { j \in DOMAIN c.plugins[5].patterns : "flatten" \in DOMAIN c.plugins[5].patterns[j] } }

Decisions(c) ==
    [ target     |-> c.output.path,
      vendors    |-> VendorKeysOf(c),
      css        |-> CssMinifiesOf(c),
      filename   |-> c.output.filename,
      devtool    |-> IF "devtool" \in DOMAIN c THEN c.devtool ELSE JsUndefined,
      liveReload |-> HasLiveReloadPlugin(c) ]

\* the configuration the same call yields for environment e
ConfigFor(e) ==
    moduleExports([ js |-> "object",
                    env |-> [ environment |-> e, watch |-> Env.watch,
                              buildTarget |-> Env.buildTarget ] ],
                  dependencies, processEnv)

\* C6 as stated: every environment other than 'production' makes the
\* decisions of 'development' for build target root, vendor copy set,
\* stylesheet handling, output file suffix, devtool and live-reload plugin.
C6_AsStated ==
    (Built /\ Env.environment # "production") =>
        Decisions(config) = Decisions(ConfigFor("development"))

\* C6 (amended): every environment other than 'production' makes the
\* decisions of 'development' for build target root, stylesheet handling and
\* output file suffix, and for devtool unless buildTarget is exactly
\* 'build/' (where only 'development' drops it); the unminified vendor set
\* and the live-reload plugin are used only when environment is exactly
\* 'development': any other value copies the pre-minified and
\* needs-minification vendor sets and gets no live-reload plugin.
C6_DevelopmentLike ==
    (Built /\ Env.environment # "production") =>
        LET mine == Decisions(config)
            dev  == Decisions(ConfigFor("development"))
        IN  /\ mine.target = dev.target
            /\ mine.css = dev.css
            /\ mine.filename = dev.filename
            /\ mine.filename = << "[basename]", ".js" >>
            /\ Env.buildTarget # JsStr(<< "build", "/" >>) => mine.devtool = dev.devtool
            /\ Env.buildTarget = JsStr(<< "build", "/" >>) =>
                 (mine.devtool = JsUndefined <=> Env.environment = "development")
            /\ Env.environment # "development" =>
                 /\ mine.vendors = Keys(minifiedVendors) \o Keys(minifyVendors)
                 /\ mine.vendors # dev.vendors
                 /\ ~ mine.liveReload
            /\ Env.environment = "development" => mine.vendors = Keys(vendors)

\* environment 'test': development-like target, suffix and devtool, but the
\* minified vendor set and no live-reload plugin
C6_Witness ==
    /\ Built
    /\ Env.environment = "test"
    /\ Env.buildTarget = JsFalse
    /\ Len(Pkgs) = 1
    /\ config.output.filename = << "[basename]", ".js" >>
    /\ "devtool" \in DOMAIN config
    /\ ~ HasLiveReloadPlugin(config)
    /\ Len(VendorPatterns) = 9

\* the package an entry key stands for: the last one in the list with that key
PackageOfEntry(name) ==
    Pkgs[CHOOSE i \in DOMAIN Pkgs :
           /\ camelCaseDash(Pkgs[i]) = name
           /\ \A j \in DOMAIN Pkgs : camelCaseDash(Pkgs[j]) = name => j <= i]

IsBundleCall ==
    /\ Called
    /\ call.fn = "assetPath"
    /\ "entryModule" \in DOMAIN call.data.chunk
    /\ call.data.chunk.entryModule.type \in { "javascript/auto", "javascript/esm" }

ExpectedSuffix == IF Env.environment = "production" THEN << ".min" >> ELSE << >>

\* C7 as stated: the bundle of a package is named after the package's
\* camel-case name, <packageGlobal>.js, or <packageGlobal>.min.js in production.
C7_AsStated ==
    IsBundleCall =>
        call.result = call.name \o ExpectedSuffix \o << ".js" >>

\* C7 (amended): each bundled package is written under <build target>/js/dist
\* to a file named after the package's dash-case name (the basename of its
\* module path), <packageName>.js, and <packageName>.min.js when environment
\* is 'production': package 'api-fetch' produces api-fetch.js /
\* api-fetch.min.js; the camel-case name is the entry key only.
C7_BundleFileName ==
    IsBundleCall =>
        /\ call.result = PackageOfEntry(call.name) \o ExpectedSuffix \o << ".js" >>
        /\ config.output.path =
             join(baseDir, ExpectedRoot \o << "/", "wp-includes", "/", "js", "/", "dist" >>)
        /\ call.name = << "a", "p", "i", "F", "e", "t", "c", "h" >> =>
             call.result = << "a", "p", "i", "-", "f", "e", "t", "c", "h" >> \o ExpectedSuffix \o << ".js" >>

\* the production bundle of 'api-fetch'
C7_Witness ==
    /\ IsBundleCall
    /\ Env.environment = "production"
    /\ call.name = << "a", "p", "i", "F", "e", "t", "c", "h" >>
    /\ call.result = << "a", "p", "i", "-", "f", "e", "t", "c", "h" >> \o << ".min", ".js" >>

NoDuplicates(s) == \A i, j \in DOMAIN s : i # j => s[i] # s[j]

\* C8: the three vendor maps are pairwise disjoint in their destination file
\* names, so in a build no two vendor copy instructions have the same
\* destination path.
C8_VendorMapsDisjoint ==
    /\ NoDuplicates(Keys(vendors) \o Keys(minifiedVendors) \o Keys(minifyVendors))
    /\ Built => NoDuplicates([ i \in DOMAIN VendorPatterns |-> VendorPatterns[i].to ])

\* a build that copies both the pre-minified and the needs-minification set
C8_Witness ==
    /\ Built
    /\ Env.environment = "production"
    /\ Len(VendorPatterns) = 9
    /\ dependencies # << >>

PackagePath(p) == join(baseDir, << "node_modules", "/", "@wordpress", "/" >> \o p)

\* C9: the entry map has the key camelCaseDash(p) for every package p of the
\* derived list and no other key (['a11y','api-fetch'] gives 'a11y' and
\* 'apiFetch'); a collision is not rejected: when two package names have the
\* same key, the one entry of that key holds the module path of the package
\* that comes later in the list.
C9_EntryMap ==
    Built =>
        /\ DOMAIN config.entry = { camelCaseDash(Pkgs[i]) : i \in DOMAIN Pkgs }
        /\ \A i \in DOMAIN Pkgs :
             (\A j \in DOMAIN Pkgs : j > i => camelCaseDash(Pkgs[j]) # camelCaseDash(Pkgs[i]))
               => config.entry[camelCaseDash(Pkgs[i])] = PackagePath(Pkgs[i])
        /\ Pkgs = << << "a", "1", "1", "y" >>, << "a", "p", "i", "-", "f", "e", "t", "c", "h" >> >> =>
             /\ DOMAIN config.entry = { << "a", "1", "1", "y" >>, << "a", "p", "i", "F", "e", "t", "c", "h" >> }
             /\ config.entry[<< "a", "1", "1", "y" >>] = PackagePath(<< "a", "1", "1", "y" >>)
             /\ config.entry[<< "a", "p", "i", "F", "e", "t", "c", "h" >>] = PackagePath(<< "a", "p", "i", "-", "f", "e", "t", "c", "h" >>)

\* 'a-b' then 'aB': one entry 'aB', holding the path of the later package
C9_Witness ==
    /\ Built
    /\ Pkgs = << << "a", "-", "b" >>, << "a", "B" >> >>
    /\ DOMAIN config.entry = { << "a", "B" >> }
    /\ config.entry[<< "a", "B" >>] = PackagePath(<< "a", "B" >>)

IsSpecialCase == Env.environment = "development" /\ Env.buildTarget = JsStr(<< "build", "/" >>)

\* C10: the returned mode is the requested environment, except for
\* environment 'development' with buildTarget exactly 'build/': then the mode
\* is 'production', devtool is absent and optimization.minimize is false,
\* while vendor copies, stylesheet copies and file suffix stay the
\* development ones.  Always, the live-reload plugin is present iff the
\* returned mode is 'development', and devtool is set iff environment is not
\* 'production' and the special case does not apply.
C10_ReturnedMode ==
    Built =>
        /\ ~ IsSpecialCase =>
             /\ config.mode = Env.environment
             /\ "optimization" \notin DOMAIN config
        /\ IsSpecialCase =>
             /\ config.mode = "production"
             /\ "devtool" \notin DOMAIN config
             /\ "optimization" \in DOMAIN config
             /\ config.optimization.minimize = FALSE
             /\ VendorKeysOf(config) = Keys(vendors)
             /\ CssMinifiesOf(config) \subseteq { FALSE }
             /\ config.output.filename = << "[basename]", ".js" >>
        /\ HasLiveReloadPlugin(config) <=> config.mode = "development"
        /\ "devtool" \in DOMAIN config <=> (Env.environment # "production" /\ ~ IsSpecialCase)
        /\ "devtool" \in DOMAIN config =>
             config.devtool = IF processEnv.SOURCEMAP.js = "string"
                              THEN processEnv.SOURCEMAP ELSE JsStr(<< "source-map" >>)

\* the special case: development into 'build/'
C10_Witness ==
    /\ Built
    /\ IsSpecialCase
    /\ config.mode = "production"
    /\ ~ HasLiveReloadPlugin(config)
    /\ Len(Pkgs) = 1
====
